---- MODULE Spec2Model ----
(* Migration engine of the subscription manager: the DatabaseMigrations    *)
(* class (version store, registry, runner) over a SQLite connection.       *)
EXTENDS Integers, Sequences, FiniteSets, TLC

(* ------------------------------------------------------------------ *)
(* Bounds                                                              *)
(* ------------------------------------------------------------------ *)
MaxVersion == 3
MaxLen == 3
StmtCount == 2
NumCalls == 2
MaxRuns == 2
MaxItems == 2
MaxBody == 2
MaxClock == 2
MaxLines == 3

Calls == 1..NumCalls
Versions == 1..MaxVersion

(* ------------------------------------------------------------------ *)
(* Registry                                                            *)
(* ------------------------------------------------------------------ *)
MigrationName(v) ==
  CASE v = 1 -> "initial_schema_consolidated"
    [] v = 2 -> "add_notification_system"
    [] v = 3 -> "add_scheduler_settings"
    [] v = 4 -> "add_repeat_notification_setting"
    [] OTHER -> "migration"

Descriptor(v) == [version |-> v, name |-> MigrationName(v)]

\* the actions that begin with ALTER TABLE ... ADD COLUMN inside try/catch
HasAddColumn(v) == v \in {2, 4}

AddColumnVersions == {v \in Versions : HasAddColumn(v)}

\* the registry of the copy in server/db: versions 1 and 2, the second under
\* another name and with an action that has no ADD COLUMN
ServerMigrationName(v) ==
  CASE v = 1 -> "initial_schema_consolidated"
    [] v = 2 -> "add_notification_tables_telegram"
    [] OTHER -> "migration"

ServerRegistry ==
  [i \in 1..2 |-> [version |-> i, name |-> ServerMigrationName(i)]]

ActionHasAddColumn(d) == HasAddColumn(d.version) /\ d.name = MigrationName(d.version)

\* registries in registration order: versions never decrease along the list
\* (strictly ascending ones, and ones that repeat a version)
NonDecreasing(s) == \A i \in 1..Len(s) : \A j \in 1..Len(s) : i < j => s[i] <= s[j]

VersionLists == UNION {[1..n -> Versions] : n \in 0..MaxLen}

Registries == {[i \in 1..Len(s) |-> Descriptor(s[i])] : s \in {t \in VersionLists : NonDecreasing(t)}}

VARIABLES
  migrations,      \* this.migrations: the registry
  tableExists,     \* the migrations table has been created
  rows,            \* rows of the migrations table, in insertion (id) order
  schema,          \* statements of migration actions whose effects are in the database
  foreignKeys,     \* PRAGMA foreign_keys of the connection
  columns,         \* versions whose ADD COLUMN column exists in the database
  schemaSql,       \* columns the baseline schema.sql already defines
  openTx,          \* calls that hold an open transaction
  pc,              \* position of each runMigrations call
  currentVersion,  \* const currentVersion of each call
  pendingMigrations, \* const pendingMigrations of each call (indices into migrations)
  idx,             \* position of the for-of loop in pendingMigrations
  stmt,            \* next statement of the running action
  saved,           \* database content at BEGIN, restored by ROLLBACK
  lastQuery,       \* result of the last direct getCurrentVersion() call
  \* history of each run (observations, not program state)
  ordinal, invoked, txCount, inserted, startRows, startSchema, readOk, reads, failure,
  addColumn,       \* what the ADD COLUMN of each pending migration of the run met
  runCount, results,
  latest,          \* the call started last
  error,           \* the exception a failed statement threw, of each call
  rejection,       \* what the promise of each call was rejected with
  dbOpen,          \* this.db is an open connection
  now,             \* CURRENT_TIMESTAMP: the clock of the database, in whole seconds
  baseLen,         \* length of the registry of the first release (history)
  \* parseSQL(sql): a text is a sequence of pieces (words, ";", " ", "\n")
  schemaSQL,       \* the text of schema.sql
  sql,             \* the argument
  items,           \* the statements and trigger definitions sql was written from
  lines,           \* const lines = sql.split('\n')
  lineNo,          \* position of the for-of loop in lines
  statements, currentStatement, inTrigger,
  parsePc          \* position of the parseSQL call

vars == <<migrations, tableExists, rows, schema, foreignKeys, columns, schemaSql,
          addColumn, openTx, pc,
          currentVersion, pendingMigrations, idx, stmt, saved, lastQuery,
          ordinal, invoked, txCount, inserted, startRows, startSchema, readOk, reads,
          failure, runCount, results, latest, error, rejection, dbOpen, now, baseLen,
          schemaSQL, sql, items, lines, lineNo, statements, currentStatement, inTrigger,
          parsePc>>

parseVars == <<schemaSQL, sql, items, lines, lineNo, statements, currentStatement, inTrigger, parsePc>>

\* what a runMigrations call never assigns
envVars == <<migrations, schemaSql, dbOpen, now, baseLen, parseVars>>

dbVars == <<tableExists, rows, schema, foreignKeys, columns>>
errVars == <<error, rejection>>
histVars == <<ordinal, invoked, txCount, inserted, startRows, startSchema, readOk, reads, failure, latest,
             addColumn>>

(* ------------------------------------------------------------------ *)
(* Version store                                                       *)
(* ------------------------------------------------------------------ *)
RowVersions(tbl) == {tbl[i].version : i \in 1..Len(tbl)}

\* SELECT MAX(version): <<>> is SQL NULL (no rows), <<v>> a value
RECURSIVE MaxFrom(_, _, _)
MaxFrom(tbl, i, acc) ==
  IF i > Len(tbl) THEN acc
  ELSE MaxFrom(tbl, i + 1,
               IF acc = <<>> \/ tbl[i].version > acc[1] THEN <<tbl[i].version>> ELSE acc)

SelectMaxVersion(tbl) == MaxFrom(tbl, 1, <<>>)

\* JavaScript x || d on a column value: null and 0 are falsy
JsOr(x, d) == IF x = <<>> THEN d ELSE IF x[1] = 0 THEN d ELSE x[1]

\* the body of the try block: prepare(...).get() throws when the table is
\* missing or the read fails
TryReadVersion(exists, tbl, ok) ==
  IF exists /\ ok
    THEN [threw |-> FALSE, value |-> JsOr(SelectMaxVersion(tbl), 0)]
    ELSE [threw |-> TRUE, value |-> 0]

getCurrentVersionNoCatch(exists, tbl, ok) ==
  LET r == TryReadVersion(exists, tbl, ok)
  IN  [raised |-> r.threw, value |-> r.value]

getCurrentVersionMin(exists, tbl, ok) ==
  LET vs == RowVersions(tbl)
  IN  [raised |-> FALSE,
       value |-> IF exists /\ ok /\ vs # {} THEN CHOOSE v \in vs : \A w \in vs : v <= w ELSE 0]

getCurrentVersion(exists, tbl, ok) ==
  LET r == TryReadVersion(exists, tbl, ok)
  IN  IF r.threw THEN [raised |-> FALSE, value |-> 0]
      ELSE [raised |-> FALSE, value |-> r.value]

\* this.migrations.filter(m => m.version > currentVersion), as registry indices
RECURSIVE FilterFrom(_, _, _)
FilterFrom(reg, i, cv) ==
  IF i > Len(reg) THEN <<>>
  ELSE IF reg[i].version > cv THEN <<i>> \o FilterFrom(reg, i + 1, cv)
  ELSE FilterFrom(reg, i + 1, cv)

PendingFilterInclusive(reg, cv) ==
  LET RECURSIVE F(_)
      F(i) == IF i > Len(reg) THEN <<>>
              ELSE IF reg[i].version >= cv THEN <<i>> \o F(i + 1) ELSE F(i + 1)
  IN  F(1)

PendingFilter(reg, cv) == FilterFrom(reg, 1, cv)

(* ------------------------------------------------------------------ *)
(* Runner                                                              *)
(* ------------------------------------------------------------------ *)
Active == {"pragma", "init", "read", "check", "begin", "call", "alter", "up", "insert",
           "commit", "rollback", "catch"}
Finished == {"done", "failed"}

Busy == \E c \in Calls : pc[c] \in Active

\* an async function without await runs its whole body within the call
CanEnterWithAwait(c) == TRUE

CanEnter(c) == ~Busy

Min(a, b) == IF a < b THEN a ELSE b

Zeroes == [i \in 1..Len(migrations) |-> 0]

Record(r) == IF Len(results) < MaxRuns THEN Append(results, r) ELSE results

Current(c) == migrations[pendingMigrations[c][idx[c]]]

\* error values: what they are, the migration versions they name, their cause
NoError == [kind |-> "none", names |-> {}, cause |-> "none"]

\* an exception of the database driver: its message names no migration
SqliteError(msg) == [kind |-> msg, names |-> {}, cause |-> "none"]

\* throw error: the caught exception itself is thrown again
Rethrow(v, e) == e

NoSave == [rows |-> <<>>, schema |-> <<>>, columns |-> {}]

NoFailure == [kind |-> "none", at |-> 0]

NoQuery == [asked |-> FALSE, exists |-> FALSE, rows |-> <<>>, ok |-> TRUE,
            raised |-> FALSE, value |-> 0]

TypeOK ==
  /\ migrations \in Registries \cup {ServerRegistry}
  /\ tableExists \in BOOLEAN
  /\ foreignKeys \in BOOLEAN
  /\ openTx \subseteq Calls
  /\ \A c \in Calls : pc[c] \in Active \cup Finished \cup {"idle"}

RunnerInit ==
  /\ migrations \in Registries
  /\ tableExists = FALSE
  /\ rows = <<>>
  /\ schema = <<>>
  /\ foreignKeys = FALSE
  /\ columns = {}
  /\ schemaSql \in SUBSET AddColumnVersions
  /\ addColumn = [c \in Calls |-> {}]
  /\ openTx = {}
  /\ pc = [c \in Calls |-> "idle"]
  /\ currentVersion = [c \in Calls |-> 0]
  /\ pendingMigrations = [c \in Calls |-> <<>>]
  /\ idx = [c \in Calls |-> 0]
  /\ stmt = [c \in Calls |-> 0]
  /\ saved = [c \in Calls |-> NoSave]
  /\ lastQuery = NoQuery
  /\ ordinal = [c \in Calls |-> 0]
  /\ invoked = [c \in Calls |-> Zeroes]
  /\ txCount = [c \in Calls |-> 0]
  /\ inserted = [c \in Calls |-> 0]
  /\ startRows = [c \in Calls |-> <<>>]
  /\ startSchema = [c \in Calls |-> <<>>]
  /\ readOk = [c \in Calls |-> TRUE]
  /\ reads = [c \in Calls |-> 0]
  /\ failure = [c \in Calls |-> NoFailure]
  /\ runCount = 0
  /\ results = <<>>
  /\ latest = 0
  /\ error = [c \in Calls |-> NoError]
  /\ rejection = [c \in Calls |-> NoError]
  /\ dbOpen = TRUE
  /\ now = 0
  /\ baseLen = Len(migrations)

\* no parseSQL call is under way
ParserIdle ==
  /\ schemaSQL = <<>>
  /\ sql = <<>>
  /\ items = <<>>
  /\ lines = <<>>
  /\ lineNo = 0
  /\ statements = <<>>
  /\ currentStatement = <<>>
  /\ inTrigger = FALSE
  /\ parsePc = "idle"

Init == RunnerInit /\ ParserIdle

\* the locals of call c get the value val; those of calls that have returned
\* are dead and are dropped
Enter(f, c, val, init) ==
  [d \in Calls |-> IF d = c THEN val ELSE IF pc[d] \in Finished THEN init ELSE f[d]]

\* runMigrations() is called
Call(c) ==
  /\ pc[c] = "idle"
  /\ CanEnter(c)
  /\ pc' = [pc EXCEPT ![c] = "pragma"]
  /\ runCount' = Min(runCount + 1, MaxRuns + 1)
  /\ latest' = c
  /\ lastQuery' = NoQuery   \* the result of an earlier direct query is no longer observed
  /\ currentVersion' = Enter(currentVersion, c, 0, 0)
  /\ pendingMigrations' = Enter(pendingMigrations, c, <<>>, <<>>)
  /\ idx' = Enter(idx, c, 0, 0)
  /\ stmt' = Enter(stmt, c, 0, 0)
  /\ saved' = Enter(saved, c, NoSave, NoSave)
  /\ ordinal' = Enter(ordinal, c, runCount', 0)
  /\ invoked' = Enter(invoked, c, Zeroes, Zeroes)
  /\ txCount' = Enter(txCount, c, 0, 0)
  /\ inserted' = Enter(inserted, c, 0, 0)
  /\ startRows' = Enter(startRows, c, rows, <<>>)
  /\ startSchema' = Enter(startSchema, c, schema, <<>>)
  /\ readOk' = Enter(readOk, c, TRUE, TRUE)
  /\ reads' = Enter(reads, c, 0, 0)
  /\ failure' = Enter(failure, c, NoFailure, NoFailure)
  /\ addColumn' = Enter(addColumn, c, {}, {})
  /\ error' = Enter(error, c, NoError, NoError)
  /\ rejection' = [rejection EXCEPT ![c] = NoError]
  /\ UNCHANGED <<envVars, dbVars, openTx, results>>

\* what follows the pragma: this.initMigrationsTable(), then the version read
AfterPragmaRead == "read"

AfterPragma == "init"

\* this.db.pragma('foreign_keys = ON')
SetPragma(c) ==
  /\ pc[c] = "pragma"
  /\ dbOpen
  /\ foreignKeys' = TRUE
  /\ pc' = [pc EXCEPT ![c] = AfterPragma]
  /\ UNCHANGED <<envVars, tableExists, rows, schema, columns, openTx, currentVersion,
                 pendingMigrations, idx, stmt, saved, lastQuery, histVars,
                 runCount, results>>
  /\ UNCHANGED errVars

\* CREATE TABLE IF NOT EXISTS migrations: the rows of an existing table stay
DropAndCreateTable(exists, tbl) == <<>>

CreateTableIfNotExists(exists, tbl) == IF exists THEN tbl ELSE <<>>

initMigrationsTable(c) ==
  /\ pc[c] = "init"
  /\ tableExists' = TRUE
  /\ rows' = CreateTableIfNotExists(tableExists, rows)
  /\ pc' = [pc EXCEPT ![c] = "read"]
  /\ UNCHANGED <<envVars, schema, foreignKeys, columns, openTx, currentVersion,
                 pendingMigrations, idx, stmt, saved, lastQuery, histVars,
                 runCount, results>>
  /\ UNCHANGED errVars

\* const currentVersion = this.getCurrentVersion(); const pendingMigrations = filter
\* (ok: the SELECT succeeds)
ReadVersionWith(c, ok) ==
  /\ pc[c] = "read"
  /\ LET cv == getCurrentVersion(tableExists, rows, ok).value
     IN  /\ currentVersion' = [currentVersion EXCEPT ![c] = cv]
         /\ pendingMigrations' = [pendingMigrations EXCEPT ![c] = PendingFilter(migrations, cv)]
  /\ readOk' = [readOk EXCEPT ![c] = ok]
  /\ reads' = [reads EXCEPT ![c] = @ + 1]
  /\ pc' = [pc EXCEPT ![c] = "check"]
  /\ UNCHANGED <<envVars, dbVars, openTx, idx, stmt, saved, lastQuery,
                 ordinal, invoked, txCount, inserted, startRows, startSchema,
                 failure, runCount, results, latest, addColumn>>
  /\ UNCHANGED errVars

ReadVersion(c) == \E ok \in BOOLEAN : ReadVersionWith(c, ok)

\* if (pendingMigrations.length === 0) return;
CheckPending(c) ==
  /\ pc[c] = "check"
  /\ IF Len(pendingMigrations[c]) = 0
       THEN /\ pc' = [pc EXCEPT ![c] = "done"]
            /\ results' = Record("ok")
            /\ idx' = idx
       ELSE /\ pc' = [pc EXCEPT ![c] = "begin"]
            /\ idx' = [idx EXCEPT ![c] = 1]
            /\ results' = results
  /\ UNCHANGED <<envVars, dbVars, openTx, currentVersion, pendingMigrations,
                 stmt, saved, lastQuery, histVars, runCount>>
  /\ UNCHANGED errVars

\* this.db.transaction(() => {...})(): BEGIN
BeginTransaction(c) ==
  /\ pc[c] = "begin"
  /\ openTx' = openTx \cup {c}
  /\ saved' = [saved EXCEPT ![c] = [rows |-> rows, schema |-> schema, columns |-> columns]]
  /\ txCount' = [txCount EXCEPT ![c] = @ + 1]
  /\ pc' = [pc EXCEPT ![c] = "call"]
  /\ UNCHANGED <<envVars, dbVars, currentVersion, pendingMigrations, idx, stmt,
                 lastQuery, ordinal, invoked, inserted, startRows, startSchema,
                 readOk, reads, failure, runCount, results, latest, addColumn>>
  /\ UNCHANGED errVars

\* migration.up()
InvokeUp(c) ==
  /\ pc[c] = "call"
  /\ invoked' = [invoked EXCEPT ![c][pendingMigrations[c][idx[c]]] = @ + 1]
  /\ stmt' = [stmt EXCEPT ![c] = 1]
  /\ pc' = [pc EXCEPT ![c] = IF ActionHasAddColumn(Current(c)) THEN "alter" ELSE "up"]
  /\ UNCHANGED <<envVars, dbVars, openTx, currentVersion, pendingMigrations,
                 idx, saved, lastQuery, ordinal, txCount, inserted, startRows,
                 startSchema, readOk, reads, failure, runCount, results, latest, addColumn>>
  /\ UNCHANGED errVars

\* the columns a statement creates: the first statement of migration 1 creates
\* the tables of schema.sql with the columns defined there
BaselineColumns(v, k) == IF v = 1 /\ k = 1 THEN schemaSql ELSE {}

\* try { ALTER TABLE ... ADD COLUMN ... } catch (error) { }: every error is caught
AddColumnCaughtNever(reason) == FALSE

AddColumnCaught(reason) == TRUE

\* the outcome reason of the ALTER TABLE of the running action: the statement
\* is left, by the catch block or by the exception
AfterAddColumn(c, reason) ==
  /\ addColumn' = [addColumn EXCEPT ![c] = @ \cup {<<idx[c], reason>>}]
  /\ IF reason = "added" \/ AddColumnCaught(reason)
       THEN /\ pc' = [pc EXCEPT ![c] = "up"]
            /\ UNCHANGED <<failure, error>>
       ELSE /\ pc' = [pc EXCEPT ![c] = "rollback"]
            /\ failure' = [failure EXCEPT ![c] = [kind |-> "action", at |-> idx[c]]]
            /\ error' = [error EXCEPT ![c] = SqliteError(reason)]

\* ALTER TABLE ... ADD COLUMN: adds the column, or fails because it exists
AddColumn(c) ==
  /\ pc[c] = "alter"
  /\ IF Current(c).version \in columns
       THEN /\ AfterAddColumn(c, "duplicate")
            /\ columns' = columns
       ELSE /\ AfterAddColumn(c, "added")
            /\ columns' = columns \cup {Current(c).version}
  /\ UNCHANGED <<envVars, tableExists, rows, schema, foreignKeys,
                 openTx, currentVersion, pendingMigrations, idx, stmt, saved,
                 lastQuery, ordinal, invoked, txCount, inserted, startRows,
                 startSchema, readOk, reads, latest, runCount, results, rejection>>

\* ALTER TABLE ... ADD COLUMN fails for another reason (the table is missing,
\* the disk is full)
AddColumnFails(c) ==
  /\ pc[c] = "alter"
  /\ AfterAddColumn(c, "other")
  /\ UNCHANGED <<envVars, dbVars, openTx, currentVersion,
                 pendingMigrations, idx, stmt, saved, lastQuery, ordinal, invoked,
                 txCount, inserted, startRows, startSchema, readOk, reads, latest,
                 runCount, results, rejection>>

\* one statement of the action takes effect
ExecStatement(c) ==
  /\ pc[c] = "up"
  /\ schema' = Append(schema, <<Current(c).version, stmt[c]>>)
  /\ columns' = columns \cup BaselineColumns(Current(c).version, stmt[c])
  /\ IF stmt[c] < StmtCount
       THEN /\ stmt' = [stmt EXCEPT ![c] = @ + 1]
            /\ pc' = pc
       ELSE /\ stmt' = stmt
            /\ pc' = [pc EXCEPT ![c] = "insert"]
  /\ UNCHANGED <<envVars, tableExists, rows, foreignKeys, openTx,
                 currentVersion, pendingMigrations, idx, saved, lastQuery,
                 histVars, runCount, results>>
  /\ UNCHANGED errVars

\* catch (error) { console.error(...); throw error; } around this.db.exec of
\* the schema loader, and no catch at all around the statements of the other
\* actions: the exception of a statement leaves the action
StatementRethrownExceptLoader(v) == v # 1

StatementRethrown(v) == TRUE

\* one statement of the action throws
StatementFails(c) ==
  /\ pc[c] = "up"
  /\ failure' = [failure EXCEPT ![c] = [kind |-> "action", at |-> idx[c]]]
  /\ error' = [error EXCEPT ![c] = SqliteError("statement")]
  /\ UNCHANGED rejection
  /\ IF StatementRethrown(Current(c).version)
       THEN /\ pc' = [pc EXCEPT ![c] = "rollback"]
            /\ stmt' = stmt
       ELSE IF stmt[c] < StmtCount
         THEN /\ stmt' = [stmt EXCEPT ![c] = @ + 1]
              /\ pc' = pc
         ELSE /\ stmt' = stmt
              /\ pc' = [pc EXCEPT ![c] = "insert"]
  /\ UNCHANGED <<envVars, dbVars, openTx, currentVersion, pendingMigrations,
                 idx, saved, lastQuery, ordinal, invoked, txCount, inserted,
                 startRows, startSchema, readOk, reads, runCount, results, latest, addColumn>>

\* version INTEGER NOT NULL UNIQUE
UniqueViolationIgnored(tbl, v) == FALSE

UniqueViolation(tbl, v) == v \in RowVersions(tbl)

\* the inserted row: executed_at DATETIME DEFAULT CURRENT_TIMESTAMP
Row(d, t) == [version |-> d.version, name |-> d.name, executed_at |-> t]

\* INSERT INTO migrations (version, name) VALUES (?, ?)
RecordApplied(c) ==
  /\ pc[c] = "insert"
  /\ IF UniqueViolation(rows, Current(c).version)
       THEN /\ failure' = [failure EXCEPT ![c] = [kind |-> "insert", at |-> idx[c]]]
            /\ error' = [error EXCEPT ![c] = SqliteError("unique")]
            /\ pc' = [pc EXCEPT ![c] = "rollback"]
            /\ UNCHANGED <<rows, inserted>>
       ELSE /\ rows' = Append(rows, Row(Current(c), now))
            /\ inserted' = [inserted EXCEPT ![c] = @ + 1]
            /\ pc' = [pc EXCEPT ![c] = "commit"]
            /\ failure' = failure
            /\ error' = error
  /\ UNCHANGED rejection
  /\ UNCHANGED <<envVars, tableExists, schema, foreignKeys, columns, openTx,
                 currentVersion, pendingMigrations, idx, stmt, saved, lastQuery,
                 ordinal, invoked, txCount, startRows, startSchema, readOk, reads,
                 runCount, results, latest, addColumn>>

\* COMMIT, then the next iteration of the loop or the end of the function
Commit(c) ==
  /\ pc[c] = "commit"
  /\ openTx' = openTx \ {c}
  /\ IF idx[c] < Len(pendingMigrations[c])
       THEN /\ idx' = [idx EXCEPT ![c] = @ + 1]
            /\ pc' = [pc EXCEPT ![c] = "begin"]
            /\ results' = results
       ELSE /\ idx' = idx
            /\ pc' = [pc EXCEPT ![c] = "done"]
            /\ results' = Record("ok")
  /\ UNCHANGED <<envVars, dbVars, currentVersion, pendingMigrations, stmt,
                 saved, lastQuery, histVars, runCount>>
  /\ UNCHANGED errVars

\* what ROLLBACK leaves in the database
RollbackKeepsSchema(db, sv) == [rows |-> sv.rows, schema |-> db.schema, columns |-> sv.columns]

RollbackKeepsAll(db, sv) == db

RollbackTo(db, sv) == sv

\* the transaction wrapper rolls back and rethrows
Rollback(c) ==
  /\ pc[c] = "rollback"
  /\ LET r == RollbackTo([rows |-> rows, schema |-> schema, columns |-> columns], saved[c])
     IN  /\ rows' = r.rows
         /\ schema' = r.schema
         /\ columns' = r.columns
  /\ openTx' = openTx \ {c}
  /\ pc' = [pc EXCEPT ![c] = "catch"]
  /\ UNCHANGED <<envVars, tableExists, foreignKeys, currentVersion,
                 pendingMigrations, idx, stmt, saved, lastQuery, histVars,
                 runCount, results>>
  /\ UNCHANGED errVars

\* catch (error) { console.error(...); throw error; }
AfterCatchContinue(i, n) == IF i < n THEN "next" ELSE "failed"

AfterCatch(i, n) == "failed"

Catch(c) ==
  /\ pc[c] = "catch"
  /\ LET t == AfterCatch(idx[c], Len(pendingMigrations[c]))
     IN  IF t = "next"
           THEN /\ idx' = [idx EXCEPT ![c] = @ + 1]
                /\ pc' = [pc EXCEPT ![c] = "begin"]
                /\ results' = results
                /\ rejection' = rejection
           ELSE /\ idx' = idx
                /\ pc' = [pc EXCEPT ![c] = "failed"]
                /\ results' = Record("failed")
                /\ rejection' = [rejection EXCEPT ![c] = Rethrow(Current(c).version, error[c])]
  /\ UNCHANGED error
  /\ UNCHANGED <<envVars, dbVars, openTx, currentVersion, pendingMigrations,
                 stmt, saved, lastQuery, histVars, runCount>>

\* the caller receives the outcome of the returned promise; the locals of the
\* call are gone
Settle(c) ==
  /\ pc[c] \in Finished
  /\ pc' = [pc EXCEPT ![c] = "idle"]
  /\ currentVersion' = [currentVersion EXCEPT ![c] = 0]
  /\ pendingMigrations' = [pendingMigrations EXCEPT ![c] = <<>>]
  /\ idx' = [idx EXCEPT ![c] = 0]
  /\ stmt' = [stmt EXCEPT ![c] = 0]
  /\ saved' = [saved EXCEPT ![c] = NoSave]
  /\ ordinal' = [ordinal EXCEPT ![c] = 0]
  /\ invoked' = [invoked EXCEPT ![c] = Zeroes]
  /\ txCount' = [txCount EXCEPT ![c] = 0]
  /\ inserted' = [inserted EXCEPT ![c] = 0]
  /\ startRows' = [startRows EXCEPT ![c] = <<>>]
  /\ startSchema' = [startSchema EXCEPT ![c] = <<>>]
  /\ readOk' = [readOk EXCEPT ![c] = TRUE]
  /\ reads' = [reads EXCEPT ![c] = 0]
  /\ failure' = [failure EXCEPT ![c] = NoFailure]
  /\ addColumn' = [addColumn EXCEPT ![c] = {}]
  /\ error' = [error EXCEPT ![c] = NoError]
  /\ rejection' = [rejection EXCEPT ![c] = NoError]
  /\ UNCHANGED <<envVars, dbVars, openTx, lastQuery, runCount, results, latest>>

\* a direct call of getCurrentVersion()
QueryVersion ==
  /\ ~Busy
  /\ \E ok \in BOOLEAN :
       LET r == getCurrentVersion(tableExists, rows, ok)
       IN  lastQuery' = [asked |-> TRUE, exists |-> tableExists, rows |-> rows,
                         ok |-> ok, raised |-> r.raised, value |-> r.value]
  /\ lastQuery' # lastQuery
  /\ UNCHANGED <<envVars, dbVars, openTx, pc, currentVersion, pendingMigrations,
                 idx, stmt, saved, histVars, runCount, results>>
  /\ UNCHANGED errVars

Next ==
  \/ \E c \in Calls : Call(c)
  \/ \E c \in Calls : SetPragma(c)
  \/ \E c \in Calls : initMigrationsTable(c)
  \/ \E c \in Calls : ReadVersion(c)
  \/ \E c \in Calls : CheckPending(c)
  \/ \E c \in Calls : BeginTransaction(c)
  \/ \E c \in Calls : InvokeUp(c)
  \/ \E c \in Calls : AddColumn(c)
  \/ \E c \in Calls : AddColumnFails(c)
  \/ \E c \in Calls : ExecStatement(c)
  \/ \E c \in Calls : StatementFails(c)
  \/ \E c \in Calls : RecordApplied(c)
  \/ \E c \in Calls : Commit(c)
  \/ \E c \in Calls : Rollback(c)
  \/ \E c \in Calls : Catch(c)
  \/ \E c \in Calls : Settle(c)
  \/ QueryVersion

Spec == Init /\ [][Next]_vars

(* ------------------------------------------------------------------ *)
(* Repeated startups                                                   *)
(* ------------------------------------------------------------------ *)
\* the application is started again and again: one runMigrations call at a
\* time, each settled before the next
Startup == 1

RunnerStep ==
  \/ Call(Startup) \/ SetPragma(Startup) \/ initMigrationsTable(Startup)
  \/ ReadVersion(Startup) \/ CheckPending(Startup) \/ BeginTransaction(Startup)
  \/ InvokeUp(Startup) \/ AddColumn(Startup) \/ AddColumnFails(Startup)
  \/ ExecStatement(Startup) \/ StatementFails(Startup)
  \/ RecordApplied(Startup) \/ Commit(Startup) \/ Rollback(Startup)
  \/ Catch(Startup) \/ Settle(Startup)

\* statement k of the action of version v succeeds
ExecStatementOf(v, k) ==
  /\ pc[Startup] = "up" /\ Current(Startup).version = v /\ stmt[Startup] = k
  /\ ExecStatement(Startup)

\* the version read of some run succeeds
ReadSucceeds == ReadVersionWith(Startup, TRUE)

\* runs keep being made and carried through; a statement that is retried again
\* and again eventually succeeds, and so does the version read
SpecLive ==
  /\ Init /\ [][RunnerStep]_vars
  /\ WF_vars(RunnerStep)
  /\ SF_vars(ReadSucceeds)
  /\ \A v \in Versions : \A k \in 1..StmtCount : SF_vars(ExecStatementOf(v, k))

(* ------------------------------------------------------------------ *)
(* Properties                                                          *)
(* ------------------------------------------------------------------ *)
RegistryVersions == {migrations[i].version : i \in 1..Len(migrations)}

RegistryAscending ==
  \A i \in 1..Len(migrations) : \A j \in 1..Len(migrations) :
    i < j => migrations[i].version < migrations[j].version

\* the largest recorded version, 0 for an empty table
RecordedMax(tbl) ==
  IF tbl = <<>> THEN 0
  ELSE CHOOSE v \in RowVersions(tbl) : \A w \in RowVersions(tbl) : w <= v

\* no other call has been started after the call c
Latest(c) == latest = c

\* the statements of the actions of the recorded versions, in row order
RECURSIVE EffectsOf(_)
EffectsOf(tbl) ==
  IF tbl = <<>> THEN <<>>
  ELSE EffectsOf(SubSeq(tbl, 1, Len(tbl) - 1))
         \o [k \in 1..StmtCount |-> <<tbl[Len(tbl)].version, k>>]

SchemaVersions == {schema[i][1] : i \in 1..Len(schema)}

C2_FailedActionLeavesNothing ==
  RegistryAscending =>
    \A c \in Calls :
      (/\ pc[c] = "failed" /\ Latest(c)
       /\ failure[c].kind = "action"
       /\ migrations[pendingMigrations[c][failure[c].at]].version > RecordedMax(startRows[c]))
        => LET v == migrations[pendingMigrations[c][failure[c].at]].version
           IN  /\ \A w \in RowVersions(rows) : w < v
               /\ v \notin SchemaVersions
               /\ schema = EffectsOf(rows)

C2_Witness ==
  \E c \in Calls :
    /\ RegistryAscending
    /\ pc[c] = "failed" /\ Latest(c)
    /\ failure[c].kind = "action" /\ failure[c].at = 2
    /\ stmt[c] = 2
    /\ Len(rows) = 1

\* C3: in every state the recorded versions are pairwise different, are
\* versions of the registry, and no version is recorded while a lower registry
\* version has no row.
C3_RecordedPrefix ==
  /\ \A i \in 1..Len(rows) : \A j \in 1..Len(rows) :
       i # j => rows[i].version # rows[j].version
  /\ RowVersions(rows) \subseteq RegistryVersions
  /\ \A v \in RowVersions(rows) : \A w \in RegistryVersions :
       w < v => w \in RowVersions(rows)

C3_Witness ==
  \E c \in Calls :
    /\ pc[c] = "failed" /\ ordinal[c] = 2
    /\ Len(results) = 2 /\ results[1] = "failed"
    /\ Len(rows) >= 1 /\ Len(rows) < Len(migrations)

\* C4: once a migration has failed in a run, the run opens no further
\* transaction and invokes no action of a later pending descriptor: the
\* transactions opened are those up to the failing descriptor, and the run
\* only rolls back and raises.
C4_StopsAtFirstFailure ==
  \A c \in Calls :
    failure[c].kind # "none" =>
      /\ pc[c] \in {"rollback", "catch", "failed"}
      /\ txCount[c] = failure[c].at
      /\ \A j \in 1..Len(pendingMigrations[c]) :
           j > failure[c].at => invoked[c][pendingMigrations[c][j]] = 0

C4_Witness ==
  \E c \in Calls :
    /\ pc[c] = "failed"
    /\ failure[c].kind = "action" /\ failure[c].at = 1
    /\ Len(pendingMigrations[c]) >= 2

\* C5: whenever no transaction is open, the database holds exactly the effects
\* of the actions of the recorded versions (a row for v exists iff all of v's
\* statements are in effect); when the bookkeeping insert fails after the action
\* succeeded, the database is as it was when the transaction began and the run
\* fails.
C5_ActionAndRowAtomic ==
  /\ openTx = {} => schema = EffectsOf(rows)
  /\ openTx = {} =>
       \A v \in Versions :
         v \in RowVersions(rows) <=> \A k \in 1..StmtCount : \E i \in 1..Len(schema) : schema[i] = <<v, k>>
  /\ \A c \in Calls :
       failure[c].kind = "insert" =>
         /\ pc[c] \in {"rollback", "catch", "failed"}
         /\ pc[c] = "catch" => (rows = saved[c].rows /\ schema = saved[c].schema)

C5_Witness ==
  \E c \in Calls :
    /\ failure[c].kind = "insert" /\ pc[c] = "catch"
    /\ invoked[c][pendingMigrations[c][failure[c].at]] = 1
    /\ schema # <<>>

\* C6: with an ascending registry, no run invokes the action of a version that
\* has a row in the bookkeeping table when the transaction of that action
\* began, also in a run whose version read failed.
C6_NoActionForRecordedVersion ==
  RegistryAscending =>
    \A c \in Calls :
      pc[c] = "up" => Current(c).version \notin RowVersions(saved[c].rows)

HighestVersion ==
  IF migrations = <<>> THEN 0
  ELSE CHOOSE v \in RegistryVersions : \A w \in RegistryVersions : w <= v

Converged ==
  /\ getCurrentVersion(TRUE, rows, TRUE).value = HighestVersion
  /\ RowVersions(rows) = RegistryVersions

C8_UpToDateDoesNothing ==
  \A c \in Calls :
    (/\ pc[c] \in {"check", "begin", "call", "alter", "up", "insert", "commit",
                   "rollback", "catch", "done", "failed"}
     /\ \A i \in 1..Len(migrations) : migrations[i].version <= currentVersion[c])
      => /\ pc[c] \in {"check", "done"}
         /\ txCount[c] = 0
         /\ \A i \in 1..Len(migrations) : invoked[c][i] = 0
         /\ inserted[c] = 0
         /\ c \notin openTx
         /\ Latest(c) => (rows = startRows[c] /\ schema = startSchema[c])

C8_Witness ==
  \E c \in Calls :
    /\ pc[c] = "done"
    /\ Len(migrations) >= 2 /\ Len(startRows[c]) >= 2
    /\ \A i \in 1..Len(migrations) : migrations[i].version <= currentVersion[c]

\* C9: a direct getCurrentVersion() call never raises; it returns the largest
\* version among the rows when the table exists and the read succeeds, 0 when
\* the table has no rows, and 0 when the table is missing or the read fails;
\* the version a run reads follows the same rule.
C9_CurrentVersion ==
  /\ lastQuery.asked =>
       /\ ~lastQuery.raised
       /\ (lastQuery.exists /\ lastQuery.ok /\ lastQuery.rows # <<>>) =>
            /\ lastQuery.value \in RowVersions(lastQuery.rows)
            /\ \A w \in RowVersions(lastQuery.rows) : w <= lastQuery.value
       /\ (lastQuery.exists /\ lastQuery.ok /\ lastQuery.rows = <<>>) => lastQuery.value = 0
       /\ (~lastQuery.exists \/ ~lastQuery.ok) => lastQuery.value = 0
  /\ \A c \in Calls :
       pc[c] = "check" =>
         currentVersion[c] = IF readOk[c] THEN RecordedMax(rows) ELSE 0

C9_Witness ==
  /\ lastQuery.asked /\ ~lastQuery.ok /\ lastQuery.exists
  /\ Len(lastQuery.rows) >= 2
  /\ lastQuery.value = 0 /\ ~lastQuery.raised

\* C10: at most one migration transaction is open at any time, within a run
\* each descriptor's action is invoked at most once, and at most one call of
\* runMigrations is inside its body: a call made while another is unsettled
\* starts only after that one has finished.
C10_StrictlySequential ==
  /\ Cardinality(openTx) <= 1
  /\ \A c \in Calls : \A i \in 1..Len(migrations) : invoked[c][i] <= 1
  /\ Cardinality({c \in Calls : pc[c] \in Active}) <= 1
  /\ \A c \in Calls : c \in openTx => pc[c] \in {"call", "alter", "up", "insert", "commit", "rollback"}

C10_Witness ==
  \E c \in Calls : \E d \in Calls :
    /\ c # d
    /\ pc[c] \in Finished
    /\ pc[d] = "up" /\ ordinal[d] = 2 /\ idx[d] >= 2


\* C11: runMigrations returns normally exactly when every pending migration
\* committed; otherwise the failure it raises is that of the first failing
\* version, names that version and carries the underlying error.
C11_ReturnsOrRaisesVersion ==
  \A c \in Calls :
    /\ (pc[c] = "done" /\ Latest(c)) =>
         /\ inserted[c] = Len(pendingMigrations[c])
         /\ rejection[c] = NoError
    /\ (pc[c] = "failed" /\ Latest(c)) =>
         /\ inserted[c] < Len(pendingMigrations[c])
         /\ failure[c].at = inserted[c] + 1
         /\ rejection[c] = error[c] \/ rejection[c].cause = error[c].kind
         /\ rejection[c].names = {migrations[pendingMigrations[c][failure[c].at]].version}


\* C12: inside a migration action the only failure that is caught and not
\* raised again is an ADD COLUMN that fails because the column exists: a
\* statement that fails, and an ADD COLUMN that fails for another reason, fail
\* the migration.
C12_OnlyDuplicateColumnSwallowed ==
  \A c \in Calls :
    /\ failure[c].kind = "action" => pc[c] \in {"rollback", "catch", "failed"}
    /\ \A i \in 1..Len(pendingMigrations[c]) :
         <<i, "other">> \in addColumn[c] =>
           /\ failure[c].kind = "action" /\ failure[c].at = i
           /\ pc[c] \in {"rollback", "catch", "failed"}

\* C13: when the column of an ADD COLUMN migration exists already, the
\* migration does not raise for it, its remaining statements are executed, and
\* a run that completes has recorded the version of that migration.
C13_ExistingColumnTolerated ==
  \A c \in Calls : \A i \in 1..Len(pendingMigrations[c]) :
    <<i, "duplicate">> \in addColumn[c] =>
      LET v == migrations[pendingMigrations[c][i]].version
      IN  /\ error[c].kind # "duplicate"
          /\ (idx[c] = i /\ pc[c] = "up") => failure[c].kind = "none"
          /\ (idx[c] = i /\ pc[c] \in {"insert", "commit"}) =>
               schema = saved[c].schema \o [k \in 1..StmtCount |-> <<v, k>>]
          /\ ((idx[c] > i \/ pc[c] = "done") /\ Latest(c)) =>
               /\ v \in RowVersions(rows)
               /\ v \in columns

C13_Witness ==
  \E c \in Calls : \E i \in 1..Len(pendingMigrations[c]) :
    /\ <<i, "duplicate">> \in addColumn[c]
    /\ pc[c] = "done" /\ Latest(c) /\ ordinal[c] = 1
    /\ migrations[pendingMigrations[c][i]].version \in RowVersions(rows)


(* ------------------------------------------------------------------ *)
(* The connection and the processes that own it                        *)
(* ------------------------------------------------------------------ *)
\* this.db.pragma(...) on a closed connection throws before the try block
SetPragmaClosed(c) ==
  /\ pc[c] = "pragma"
  /\ ~dbOpen
  /\ pc' = [pc EXCEPT ![c] = "failed"]
  /\ rejection' = [rejection EXCEPT ![c] = SqliteError("closed")]
  /\ results' = Record("failed")
  /\ UNCHANGED error
  /\ UNCHANGED <<envVars, dbVars, openTx, currentVersion, pendingMigrations, idx, stmt,
                 saved, lastQuery, histVars, runCount>>

\* close(): this.db.close(), called by the owner of the object
close ==
  /\ ~Busy
  /\ dbOpen
  /\ dbOpen' = FALSE
  /\ UNCHANGED <<migrations, schemaSql, parseVars, now, baseLen, dbVars, openTx, pc, currentVersion,
                 pendingMigrations, idx, stmt, saved, lastQuery, histVars, runCount, results>>
  /\ UNCHANGED errVars

\* the registries a later release of the program may carry: the same one, or
\* one with descriptors of higher versions added at the end
LaterRegistries(reg) ==
  {r \in Registries :
     /\ Len(r) >= Len(reg)
     /\ \A i \in 1..Len(reg) : r[i] = reg[i]
     /\ \A i \in (Len(reg) + 1)..Len(r) : \A j \in 1..(i - 1) : r[j].version < r[i].version}

\* constructor(dbPath) in a new process: a new connection (foreign_keys off),
\* the registry of the release
constructor ==
  /\ \A c \in Calls : pc[c] = "idle"
  /\ \E r \in LaterRegistries(migrations) : migrations' = r
  /\ dbOpen' = TRUE
  /\ foreignKeys' = FALSE
  /\ <<migrations', dbOpen', foreignKeys'>> # <<migrations, dbOpen, foreignKeys>>
  /\ UNCHANGED <<schemaSql, parseVars, now, baseLen, tableExists, rows, schema, columns, openTx, pc,
                 currentVersion, pendingMigrations, idx, stmt, saved, lastQuery, histVars, runCount, results>>
  /\ UNCHANGED errVars

\* a second passes
Tick ==
  /\ now < MaxClock
  /\ now' = now + 1
  /\ UNCHANGED <<migrations, schemaSql, dbOpen, baseLen, parseVars, dbVars, openTx, pc,
                 currentVersion, pendingMigrations, idx, stmt, saved, lastQuery, histVars,
                 runCount, results>>
  /\ UNCHANGED errVars

NextDeploy ==
  \/ RunnerStep
  \/ SetPragmaClosed(Startup)
  \/ close
  \/ constructor
  \/ Tick

\* one process after another, each making its runMigrations calls one at a time
SpecDeploy == Init /\ [][NextDeploy]_vars

\* C14: on every exit path of runMigrations (nothing pending, all migrations
\* applied, a failure raised) the connection of the runner is closed when the
\* call finishes.
C14_ConnectionClosedOnExit ==
  \A c \in Calls : pc[c] \in Finished => ~dbOpen


(* ------------------------------------------------------------------ *)
(* parseSQL                                                            *)
(* ------------------------------------------------------------------ *)
Whitespace == {" ", "\n"}

\* String.prototype.trim
RECURSIVE trimStart(_)
trimStart(s) == IF s # <<>> /\ Head(s) \in Whitespace THEN trimStart(Tail(s)) ELSE s

RECURSIVE trimEnd(_)
trimEnd(s) ==
  IF s # <<>> /\ s[Len(s)] \in Whitespace THEN trimEnd(SubSeq(s, 1, Len(s) - 1)) ELSE s

trim(s) == trimEnd(trimStart(s))

\* String.prototype.toUpperCase
UpperOf(t) ==
  CASE t = "create trigger" -> "CREATE TRIGGER"
    [] t = "end" -> "END"
    [] t = "pragma" -> "PRAGMA"
    [] t = "x" -> "X"
    [] OTHER -> t

toUpperCase(s) == [i \in 1..Len(s) |-> UpperOf(s[i])]

startsWith(s, t) == s # <<>> /\ Head(s) = t

endsWith(s, t) == s # <<>> /\ s[Len(s)] = t

includes(s, pat) ==
  \E i \in 1..(Len(s) - Len(pat) + 1) : SubSeq(s, i, i + Len(pat) - 1) = pat

\* String.prototype.split('\n')
RECURSIVE SplitFrom(_, _, _)
SplitFrom(s, i, cur) ==
  IF i > Len(s) THEN <<cur>>
  ELSE IF s[i] = "\n" THEN <<cur>> \o SplitFrom(s, i + 1, <<>>)
  ELSE SplitFrom(s, i + 1, Append(cur, s[i]))

split(s) == SplitFrom(s, 1, <<>>)

\* Array.prototype.join('\n')
RECURSIVE join(_)
join(ls) ==
  IF ls = <<>> THEN <<>>
  ELSE IF Len(ls) = 1 THEN ls[1]
  ELSE ls[1] \o <<"\n">> \o join(Tail(ls))

\* the texts parseSQL is given: statements that end with ; at a line end,
\* trigger definitions (opening line, body lines that end with ;, closing
\* END; line), blank lines
OrdinaryStatements ==
  { << <<"x", ";">> >>,
    << <<"x">>, <<" ", "x", ";">> >>,
    << <<" ", "x", ";", " ">> >> }

TriggerHeads == { <<"CREATE TRIGGER", "x">>, <<" ", "create trigger", "x">> }

BodyLines == { <<" ", "x", ";">>, <<" ", "x", "end", ";">> }

ClosingLines == { <<"END", ";">>, <<"end", ";", " ">> }

Bodies == UNION {[1..n -> BodyLines] : n \in 1..MaxBody}

TriggerDefinitions == {<<h>> \o b \o <<e>> : h \in TriggerHeads, b \in Bodies, e \in ClosingLines}

Items ==
  {[kind |-> "statement", lines |-> l] : l \in OrdinaryStatements}
    \cup {[kind |-> "trigger", lines |-> l] : l \in TriggerDefinitions}
    \cup {[kind |-> "blank", lines |-> << <<" ">> >>]}

Inputs == UNION {[1..n -> Items] : n \in 0..MaxItems}

RECURSIVE LinesOf(_)
LinesOf(its) == IF its = <<>> THEN <<>> ELSE Head(its).lines \o LinesOf(Tail(its))

InitParse ==
  /\ RunnerInit
  /\ migrations = <<>>
  /\ schemaSql = {}
  /\ items \in Inputs
  /\ sql = join(LinesOf(items))
  /\ schemaSQL = sql
  /\ lines = <<>>
  /\ lineNo = 0
  /\ statements = <<>>
  /\ currentStatement = <<>>
  /\ inTrigger = FALSE
  /\ parsePc = "idle"

runnerVars == <<migrations, schemaSql, dbOpen, now, baseLen, dbVars, openTx, pc, currentVersion,
                pendingMigrations, idx, stmt, saved, lastQuery, histVars, runCount,
                results, errVars>>

\* parseSQL(sql) is called: its locals, and the split of sql into lines
ParseBegin ==
  /\ parsePc = "idle"
  /\ statements' = <<>>
  /\ currentStatement' = <<>>
  /\ inTrigger' = FALSE
  /\ lines' = split(sql)
  /\ lineNo' = 1
  /\ parsePc' = "loop"
  /\ UNCHANGED <<schemaSQL, sql, items, runnerVars>>

\* one iteration of for (const line of lines)
ParseLine ==
  /\ parsePc = "loop"
  /\ lineNo <= Len(lines)
  /\ LET line == lines[lineNo]
         trimmedLine == trim(line)
         flag == inTrigger \/ startsWith(toUpperCase(trimmedLine), "CREATE TRIGGER")
         cur == currentStatement \o line \o <<"\n">>
     IN  IF trimmedLine = <<>>
           THEN UNCHANGED <<statements, currentStatement, inTrigger>>
         ELSE IF endsWith(trimmedLine, ";") /\ flag
                   /\ includes(toUpperCase(trimmedLine), <<"END", ";">>)
           THEN /\ inTrigger' = FALSE
                /\ statements' = Append(statements, trim(cur))
                /\ currentStatement' = <<>>
         ELSE IF endsWith(trimmedLine, ";") /\ ~flag
           THEN /\ inTrigger' = flag
                /\ statements' = Append(statements, trim(cur))
                /\ currentStatement' = <<>>
         ELSE /\ inTrigger' = flag
              /\ statements' = statements
              /\ currentStatement' = cur
  /\ lineNo' = lineNo + 1
  /\ UNCHANGED <<schemaSQL, sql, items, lines, parsePc, runnerVars>>

\* if (currentStatement.trim()) statements.push(currentStatement.trim())
FinalStatementsDropped(stmts, buf) == stmts

FinalStatements(stmts, buf) == IF trim(buf) # <<>> THEN Append(stmts, trim(buf)) ELSE stmts

\* after the loop: the remaining text is a statement too; return statements
ParseReturn ==
  /\ parsePc = "loop"
  /\ lineNo > Len(lines)
  /\ statements' = FinalStatements(statements, currentStatement)
  /\ parsePc' = "returned"
  /\ UNCHANGED <<schemaSQL, sql, items, lines, lineNo, currentStatement, inTrigger, runnerVars>>

NextParse == ParseBegin \/ ParseLine \/ ParseReturn

SpecParse == InitParse /\ [][NextParse]_vars

\* the text of a statement or trigger definition: its lines, one per line
RECURSIVE Unlines(_)
Unlines(ls) == IF ls = <<>> THEN <<>> ELSE Head(ls) \o <<"\n">> \o Unlines(Tail(ls))

StatementOf(item) == trim(Unlines(item.lines))

RECURSIVE StatementsOf(_)
StatementsOf(its) ==
  IF its = <<>> THEN <<>>
  ELSE IF Head(its).kind = "blank" THEN StatementsOf(Tail(its))
  ELSE <<StatementOf(Head(its))>> \o StatementsOf(Tail(its))

\* C15: for a trigger definition of several lines whose body lines end with ;
\* before the closing END; line, parseSQL returns exactly one statement, made
\* of all lines from the CREATE TRIGGER line through the closing line,
\* whatever the body lines say.
C15_TriggerIsOneStatement ==
  (parsePc = "returned" /\ Len(items) = 1 /\ items[1].kind = "trigger") =>
    statements = <<StatementOf(items[1])>>

\* C16: for m ordinary statements and k complete trigger definitions in any
\* order parseSQL returns exactly m + k statements, in input order, each
\* ending with its terminator, and the trigger flag is clear at the end.
C16_OneStatementPerDefinition ==
  parsePc = "returned" =>
    /\ statements = StatementsOf(items)
    /\ \A j \in 1..Len(statements) : endsWith(statements[j], ";")
    /\ inTrigger = FALSE

\* the body lines of all trigger definitions of the input hold no END;
NoEndInBodies ==
  \A i \in 1..Len(items) :
    items[i].kind = "trigger" =>
      \A k \in 2..(Len(items[i].lines) - 1) :
        ~includes(toUpperCase(items[i].lines[k]), <<"END", ";">>)

ParseSanity ==
  (parsePc = "returned" /\ NoEndInBodies) =>
    statements = StatementsOf(items) /\ inTrigger = FALSE


\* C17: a bookkeeping row, once inserted, is never updated or deleted by a
\* later run: version, name and executed_at of the existing rows stay as they
\* are in every step, also when a run applies a newly added higher descriptor.
C17_RowsNeverChange ==
  [][Len(rows') >= Len(rows) /\ SubSeq(rows', 1, Len(rows)) = rows]_vars

C17_Witness ==
  \E c \in Calls :
    /\ pc[c] = "done" /\ Latest(c)
    /\ startRows[c] # <<>> /\ inserted[c] >= 1
    /\ pendingMigrations[c][1] > baseLen
    /\ SubSeq(rows, 1, Len(startRows[c])) = startRows[c]
    /\ rows[Len(rows)].executed_at > rows[1].executed_at

\* C18: after one run has applied versions 1, 2, 3 to a fresh database the
\* executed_at values of the rows increase strictly with the version.
C18_ExecutedAtStrictlyIncreasing ==
  \A c \in Calls :
    (/\ pc[c] = "done" /\ Latest(c)
     /\ startRows[c] = <<>> /\ inserted[c] = Len(rows)
     /\ RegistryVersions = {1, 2, 3} /\ RowVersions(rows) = {1, 2, 3}) =>
      \A i \in 1..Len(rows) : \A j \in 1..Len(rows) :
        rows[i].version < rows[j].version => rows[i].executed_at < rows[j].executed_at


\* positions of a run after its version read
AfterRead == Active \ {"pragma", "init", "read"}

\* C19: a run reads the current version exactly once; its pending list is
\* exactly the registry descriptors with a version greater than the value
\* read, in registry order, and neither changes for the rest of the run,
\* whatever rows are inserted meanwhile.
C19_ReadOncePendingFixed ==
  /\ [](\A c \in Calls :
          /\ pc[c] \in {"pragma", "init", "read"} => reads[c] = 0
          /\ (pc[c] \in AfterRead \/ (pc[c] \in Finished /\ Latest(c))) =>
               LET p == pendingMigrations[c]
               IN  /\ reads[c] = 1
                   /\ \A i \in 1..Len(p) : \A j \in 1..Len(p) : i < j => p[i] < p[j]
                   /\ {p[i] : i \in 1..Len(p)} =
                        {i \in 1..Len(migrations) : migrations[i].version > currentVersion[c]})
  /\ [][\A c \in Calls :
          pc[c] \in AfterRead =>
            /\ pendingMigrations'[c] = pendingMigrations[c]
            /\ currentVersion'[c] = currentVersion[c]
            /\ reads'[c] = reads[c]]_vars

C19_Witness ==
  \E c \in Calls :
    /\ pc[c] = "done" /\ reads[c] = 1
    /\ currentVersion[c] = 1
    /\ Len(pendingMigrations[c]) = 2 /\ inserted[c] = 2
    /\ RecordedMax(rows) = 3


\* C20: in every run the foreign-key pragma is set first, then the migrations
\* table is ensured, then the version is read, then come the transactions;
\* the pragma is set outside any transaction, and the rollback of a failed
\* migration leaves the pragma setting and the migrations table in place.
C20_StepOrder ==
  /\ [](\A c \in Calls :
          /\ pc[c] = "pragma" => openTx = {}
          /\ pc[c] \in {"pragma", "init", "read"} =>
               /\ reads[c] = 0 /\ txCount[c] = 0 /\ c \notin openTx
          /\ pc[c] \in {"init", "read"} \cup AfterRead => foreignKeys
          /\ pc[c] \in {"read"} \cup AfterRead => tableExists
          /\ c \in openTx => reads[c] = 1)
  /\ [][\A c \in Calls :
          pc[c] = "rollback" =>
            /\ foreignKeys' /\ tableExists'
            /\ pc'[c] \in {"rollback", "catch"}]_vars

C20_Witness ==
  \E c \in Calls :
    /\ pc[c] = "failed" /\ Latest(c)
    /\ failure[c].kind = "action" /\ txCount[c] >= 1 /\ reads[c] = 1
    /\ foreignKeys /\ tableExists
    /\ rows = startRows[c]


\* the statements 1..n of the action of version v, in order
StatementsDone(v, n) == [k \in 1..n |-> <<v, k>>]

\* C21: the loader of the initial schema executes its statements one at a
\* time in order; at the first statement that fails it executes no later
\* statement and raises that statement's error again: the migration fails.
C21_LoaderStopsAtFailingStatement ==
  \A c \in Calls :
    (idx[c] >= 1 /\ pc[c] \in Active \cup Finished /\ Current(c).version = 1) =>
      /\ pc[c] = "up" =>
           /\ schema = saved[c].schema \o StatementsDone(1, stmt[c] - 1)
           /\ failure[c] = NoFailure
      /\ failure[c].kind = "action" =>
           /\ pc[c] \in {"rollback", "catch", "failed"}
           /\ error[c] = SqliteError("statement")
           /\ pc[c] = "rollback" =>
                schema = saved[c].schema \o StatementsDone(1, stmt[c] - 1)
           /\ pc[c] \in {"catch", "failed"} => schema = saved[c].schema
           /\ pc[c] = "failed" => rejection[c] = error[c]

C21_Witness ==
  \E c \in Calls :
    /\ idx[c] >= 1 /\ pc[c] = "failed" /\ Current(c).version = 1
    /\ failure[c].kind = "action" /\ stmt[c] = 2
    /\ rejection[c] = SqliteError("statement")
    /\ schema = saved[c].schema


(* ------------------------------------------------------------------ *)
(* The loader of schema.sql                                            *)
(* ------------------------------------------------------------------ *)
\* line => !line.trim().startsWith('--') && !line.trim().startsWith('PRAGMA')
KeptByLoader(line) ==
  ~startsWith(trim(line), "--") /\ ~startsWith(trim(line), "PRAGMA")

\* schemaSQL.split('\n').filter(...).join('\n')
cleanSQL(text) == join(SelectSeq(split(text), KeptByLoader))

\* the lines a schema file is written from
FileLines ==
  { <<>>, <<" ">>,
    <<"x">>, <<" ", "x", ";">>, <<"x", "--", "x", ";">>,
    <<"--", "x">>, <<" ", "--", "x", ";">>,
    <<"PRAGMA", "x", ";">>, <<" ", "PRAGMA", "x", ";">>, <<"pragma", "x", ";">>,
    <<"CREATE TRIGGER", "x">>, <<"END", ";">> }

Files == UNION {[1..n -> FileLines] : n \in 0..MaxLines}

InitLoad ==
  /\ RunnerInit
  /\ migrations = <<>>
  /\ schemaSql = {}
  /\ \E f \in Files : schemaSQL = join(f)
  /\ sql = <<>>
  /\ items = <<>>
  /\ lines = <<>>
  /\ lineNo = 0
  /\ statements = <<>>
  /\ currentStatement = <<>>
  /\ inTrigger = FALSE
  /\ parsePc = "file"

\* const cleanSQL = ...; the argument of this.parseSQL(cleanSQL)
CleanSchema ==
  /\ parsePc = "file"
  /\ sql' = cleanSQL(schemaSQL)
  /\ parsePc' = "idle"
  /\ UNCHANGED <<schemaSQL, items, lines, lineNo, statements, currentStatement, inTrigger,
                 runnerVars>>

NextLoad == CleanSchema \/ ParseBegin \/ ParseLine \/ ParseReturn

SpecLoad == InitLoad /\ [][NextLoad]_vars

\* a line that is a double-dash comment, a line that is a pragma directive
IsCommentLine(line) == startsWith(trim(line), "--")

IsPragmaLine(line) == startsWith(toUpperCase(trim(line)), "PRAGMA")

IsOtherLine(line) == ~IsCommentLine(line) /\ ~IsPragmaLine(line)

\* C22: before the split the loader drops every line that is a double-dash
\* comment and every line that is a pragma directive, in whatever letter case,
\* and hands every other line to parseSQL unchanged and in order.
C22_CommentAndPragmaLinesDropped ==
  parsePc \in {"idle", "loop", "returned"} =>
    sql = join(SelectSeq(split(schemaSQL), IsOtherLine))


\* the lines of a text that are not blank, each without the white space around it
RECURSIVE TrimmedLines(_)
TrimmedLines(ls) ==
  IF ls = <<>> THEN <<>>
  ELSE IF trim(Head(ls)) = <<>> THEN TrimmedLines(Tail(ls))
  ELSE <<trim(Head(ls))>> \o TrimmedLines(Tail(ls))

\* the lines of the statements of a list, in the order of the list
RECURSIVE EmittedLines(_)
EmittedLines(stmts) ==
  IF stmts = <<>> THEN <<>>
  ELSE TrimmedLines(split(Head(stmts))) \o EmittedLines(Tail(stmts))

\* C23: parseSQL always returns and loses nothing: every non-blank line of the
\* input is in exactly one statement, in input order within and across the
\* statements; a statement ends only at a line that ends with ; (never at a
\* blank line) or at the end of the input, where the text left over is the
\* last statement; an empty input gives no statement.
C23_ParseLosesNothing ==
  /\ parsePc = "loop" => ENABLED (ParseLine \/ ParseReturn)
  /\ parsePc = "returned" =>
       /\ EmittedLines(statements) = TrimmedLines(split(sql))
       /\ \A j \in 1..Len(statements) :
            /\ statements[j] # <<>>
            /\ j < Len(statements) => endsWith(statements[j], ";")
       /\ sql = <<>> => statements = <<>>

C23_Witness ==
  /\ parsePc = "returned"
  /\ sql = <<"x", "\n", " ", "\n", "x">>
  /\ statements = << <<"x", "\n", "x">> >>


(* ------------------------------------------------------------------ *)
(* The two copies of the program on one database                       *)
(* ------------------------------------------------------------------ *)
\* constructor(dbPath) of a process of either copy, whatever registry it
\* carries, on the database the processes before it have migrated
constructorCopy ==
  /\ \A c \in Calls : pc[c] = "idle"
  /\ migrations' \in (Registries \cup {ServerRegistry}) \ {migrations}
  /\ dbOpen' = TRUE
  /\ foreignKeys' = FALSE
  /\ UNCHANGED <<schemaSql, parseVars, now, baseLen, tableExists, rows, schema, columns,
                 openTx, pc, currentVersion, pendingMigrations, idx, stmt, saved, lastQuery,
                 histVars, runCount, results>>
  /\ UNCHANGED errVars

NextCopies == RunnerStep \/ constructorCopy

SpecCopies == Init /\ [][NextCopies]_vars

\* the run c has invoked no descriptor with a version at or below the highest
\* version recorded when it began
SkippedUpToMax(c) ==
  \A i \in 1..Len(migrations) :
    migrations[i].version <= RecordedMax(startRows[c]) => invoked[c][i] = 0

\* C24: what is pending depends on the highest recorded version only: no run
\* invokes a descriptor whose version is at or below that maximum, also when
\* the table has no row for the version or has it under another name.
C24_NothingAtOrBelowMaxInvoked ==
  \A c \in Calls : pc[c] # "idle" => SkippedUpToMax(c)

\* the same for the runs whose version read succeeded
SkippedWhenRead ==
  \A c \in Calls : (pc[c] # "idle" /\ readOk[c]) => SkippedUpToMax(c)

\* a run under a registry with a version that has no row, and one with a
\* version recorded under another name, skipped both
GapSkipped ==
  \E c \in Calls : \E i \in 1..Len(migrations) :
    /\ pc[c] = "done" /\ readOk[c]
    /\ migrations[i].version < RecordedMax(startRows[c])
    /\ migrations[i].version \notin RowVersions(startRows[c])

OtherNameSkipped ==
  \E c \in Calls : \E i \in 1..Len(migrations) : \E j \in 1..Len(startRows[c]) :
    /\ pc[c] = "done" /\ readOk[c] /\ inserted[c] >= 1
    /\ startRows[c][j].version = migrations[i].version
    /\ startRows[c][j].name # migrations[i].name

====
